---- MODULE Spec2Model ----
(***************************************************************************)
(* Model of agents/data_scientist.py: the plan requester (get_ai_plan),    *)
(* the report assembler (generate_pdf_report) and the pipeline controller  *)
(* (run_dynamic_analysis).                                                 *)
(*                                                                         *)
(* A model response is a sequence of lexical tokens:                       *)
(*   "fo"  the fence opener  ```json\n        "fc"  a bare fence  ```      *)
(*   "{" "}" "[" "]"  brackets                "m"   one object member      *)
(*   "lit" a scalar literal (number, string, null)                         *)
(*   "ws"  whitespace                         "txt" prose                  *)
(* plt.savefig is modelled by its nesting depth: 0 is the primitive of the *)
(* plotting library, n+1 is a safe_savefig wrapper closing over depth n.   *)
(***************************************************************************)
EXTENDS Integers, Sequences, FiniteSets, TLC

VARIABLES
    pc,                          \* position of the call in progress
    runs,                        \* calls of run_dynamic_analysis started so far
    savefig,                     \* plt.savefig (process-wide)
    files,                       \* chart files present in TEMP_CHART_DIR
    response,                    \* outcome of model.generate_content
    ai_plan,                     \* value returned (or raised) by get_ai_plan
    feature_engineering_code,
    visualization_code,
    strategic_recommendations,
    report_structure,
    original_savefig,            \* local of run_dynamic_analysis
    chart_paths,                 \* local_scope["chart_paths"]
    template_vars,               \* mapping handed to template.render
    cleanup_index,               \* position of the cleanup loop
    steps,                       \* stages executed by the call in progress
    result                       \* what the last call gave its caller

vars == <<pc, runs, savefig, files, response, ai_plan, feature_engineering_code,
          visualization_code, strategic_recommendations, report_structure,
          original_savefig, chart_paths, template_vars, cleanup_index, steps,
          result>>

\* Bounds of the model.
MaxResp == 4
MaxCharts == 4
MaxSections == 3
MaxAppends == 3
MaxPlanSections == 2
MaxRuns == 2

Min(a, b) == IF a < b THEN a ELSE b

None == "None"

(***************************************************************************)
(* Python helpers                                                          *)
(***************************************************************************)

\* seq[lo:hi] with 0-based, end-exclusive, clamped bounds (lo, hi >= 0).
Slice(seq, lo, hi) == SubSeq(seq, lo + 1, Min(hi, Len(seq)))

\* seq[lo:]
SliceFrom(seq, lo) == SubSeq(seq, lo + 1, Len(seq))

(***************************************************************************)
(* get_ai_plan                                                             *)
(***************************************************************************)

Tokens == {"fo", "fc", "{", "}", "[", "]", "m", "lit", "ws", "txt"}

RECURSIVE SeqsUpTo(_, _)
SeqsUpTo(S, n) ==
    IF n = 0 THEN {<<>>}
    ELSE LET shorter == SeqsUpTo(S, n - 1)
         IN shorter \cup {Append(s, x) : s \in {t \in shorter : Len(t) = n - 1}, x \in S}

RECURSIVE StripWs(_)
StripWs(s) ==
    IF s = <<>> THEN <<>>
    ELSE IF Head(s) = "ws" THEN StripWs(Tail(s))
    ELSE <<Head(s)>> \o StripWs(Tail(s))

\* The JSON grammar over tokens (whitespace already removed):
\*   value ::= lit | [ ] | [ value ] | { m* }
RECURSIVE IsJsonValue(_)
IsJsonValue(s) ==
    \/ s = <<"lit">>
    \/ /\ Len(s) >= 2
       /\ s[1] = "[" /\ s[Len(s)] = "]"
       /\ \/ Len(s) = 2
          \/ IsJsonValue(SubSeq(s, 2, Len(s) - 1))
    \/ /\ Len(s) >= 2
       /\ s[1] = "{" /\ s[Len(s)] = "}"
       /\ \A i \in 2..(Len(s) - 1) : s[i] = "m"

\* json.loads: the decoded value, or JSONDecodeError.
JsonLoads(text) ==
    LET s == StripWs(text)
    IN IF IsJsonValue(s) THEN [ok |-> TRUE, value |-> s]
       ELSE [ok |-> FALSE, value |-> <<>>]

\* The Python type of a decoded value.
JsonKind(v) ==
    IF v[1] = "{" THEN "dict" ELSE IF v[1] = "[" THEN "list" ELSE "scalar"

\* re.search(r"```json\n([\s\S]*?)```", text): group(1), or no match.
\* The closing ``` is the first one after the opener; the first three
\* characters of another opener are such a ```.
FenceSearch(text) ==
    LET opens == {i \in 1..Len(text) : text[i] = "fo"}
    IN IF opens = {} THEN [found |-> FALSE, group |-> <<>>]
       ELSE LET i == CHOOSE x \in opens : \A y \in opens : x <= y
                closes == {j \in (i + 1)..Len(text) : text[j] \in {"fc", "fo"}}
            IN IF closes = {} THEN [found |-> FALSE, group |-> <<>>]
               ELSE LET j == CHOOSE x \in closes : \A y \in closes : x <= y
                    IN [found |-> TRUE, group |-> SubSeq(text, i + 1, j - 1)]

\* re.search(r"\{[\s\S]*\}", text): group(0), or no match (greedy: from the
\* first "{" to the last "}").
BraceSearch(text) ==
    LET lb == {i \in 1..Len(text) : text[i] = "{"}
        rb == {i \in 1..Len(text) : text[i] = "}"}
    IN IF lb = {} \/ rb = {} THEN [found |-> FALSE, group |-> <<>>]
       ELSE LET a == CHOOSE x \in lb : \A y \in lb : x <= y
                b == CHOOSE x \in rb : \A y \in rb : x >= y
            IN IF a < b THEN [found |-> TRUE, group |-> SubSeq(text, a, b)]
               ELSE [found |-> FALSE, group |-> <<>>]

Raised(cls) == [raised |-> TRUE, exc |-> cls, value |-> <<>>]
Returned(v) == [raised |-> FALSE, exc |-> None, value |-> v]

\* Outcomes of model.generate_content / response.text.
ApiText(text) == [api |-> "text", text |-> text]
ApiError == [api |-> "error", text |-> <<>>]      \* generate_content raises
ApiBlocked == [api |-> "blocked", text |-> <<>>]  \* response.text raises ValueError

\* Mutant: the brace search runs on the whole response, not on the text
\* left after the fence extraction.
ParsePlan_BraceOnResponse(text) ==
    LET fence == FenceSearch(text)
        json_text == IF fence.found THEN fence.group ELSE text
        direct == JsonLoads(json_text)
    IN IF direct.ok THEN Returned(direct.value)
       ELSE LET brace == BraceSearch(text)
            IN IF brace.found
               THEN LET inner == JsonLoads(brace.group)
                    IN IF inner.ok THEN Returned(inner.value)
                       ELSE Raised("ValueError")
               ELSE Raised("ValueError")

\* The parse of lines 115-138, given the response text.
ParsePlan(text) ==
    LET fence == FenceSearch(text)
        json_text == IF fence.found THEN fence.group ELSE text
        direct == JsonLoads(json_text)
    IN IF direct.ok THEN Returned(direct.value)
       ELSE LET brace == BraceSearch(json_text)
            IN IF brace.found
               THEN LET inner == JsonLoads(brace.group)
                    IN IF inner.ok THEN Returned(inner.value)
                       ELSE Raised("ValueError")
               ELSE Raised("ValueError")

get_ai_plan(resp) ==
    IF resp.api = "error" THEN Raised("Exception")
    ELSE IF resp.api = "blocked" THEN Raised("ValueError")
    ELSE ParsePlan(resp.text)

(***************************************************************************)
(* generate_pdf_report                                                     *)
(***************************************************************************)

\* A Python value of the report structure: a dict, or something that is not
\* a mapping (section.get then raises AttributeError).
PyDict(d) == [py |-> "dict", d |-> d]
PyStr == [py |-> "str", d |-> [s |-> "x"]]

\* dict.get(key, default)
Get(d, key, default) == IF key \in DOMAIN d THEN d[key] ELSE default

\* Mutant: the slice takes three charts.
ChartsForSection_Three(charts, chart_index) == Slice(charts, chart_index, chart_index + 3)

\* charts[chart_index : chart_index + 2]
ChartsForSection(charts, chart_index) == Slice(charts, chart_index, chart_index + 2)

\* Mutant: the slice starts one chart late.
RemainingCharts_OffByOne(charts, chart_index) == SliceFrom(charts, chart_index + 1)

\* charts[chart_index:]
RemainingCharts(charts, chart_index) == SliceFrom(charts, chart_index)

\* The body of the for loop, lines 177-191, for one section.
ProcessSection(section, charts, chart_index) ==
    LET processed_section ==
            [title |-> Get(section.d, "title", ""),
             content |-> Get(section.d, "content", ""),
             type |-> Get(section.d, "type", "text"),
             metrics |-> Get(section.d, "metrics", {})]
        attach == Get(section.d, "type", None) = "charts" /\ chart_index < Len(charts)
    IN [section |-> IF attach
                    THEN processed_section @@
                         ("chart_paths" :> ChartsForSection(charts, chart_index))
                    ELSE processed_section,
        chart_index |-> IF attach THEN chart_index + 2 ELSE chart_index]

\* The for loop of lines 176-191 from section k on.
RECURSIVE ProcessSections(_, _, _, _, _)
ProcessSections(structure, charts, k, chart_index, processed_sections) ==
    IF k > Len(structure)
    THEN [raised |-> FALSE, sections |-> processed_sections, chart_index |-> chart_index]
    ELSE IF structure[k].py # "dict"
    THEN [raised |-> TRUE, sections |-> processed_sections, chart_index |-> chart_index]
    ELSE LET one == ProcessSection(structure[k], charts, chart_index)
         IN ProcessSections(structure, charts, k + 1, one.chart_index,
                            Append(processed_sections, one.section))

\* Mutant: the trailing section is appended whether or not charts remain.
AdditionalVisualizations_Always(charts, chart_index) ==
    << [title |-> "Additional Visualizations",
        content |-> "The following additional charts",
        type |-> "charts",
        chart_paths |-> SliceFrom(charts, Min(chart_index, Len(charts)))] >>

\* Lines 193-202.
AdditionalVisualizations(charts, chart_index) ==
    IF chart_index < Len(charts)
    THEN << [title |-> "Additional Visualizations",
             content |-> "The following additional charts",
             type |-> "charts",
             chart_paths |-> RemainingCharts(charts, chart_index)] >>
    ELSE <<>>

\* Mutant: range(0, len(charts) - 1, 2), which drops an odd last chart.
ChartPairs_DropLast(charts) ==
    [p \in 1..(Len(charts) \div 2) |-> Slice(charts, 2 * (p - 1), 2 * (p - 1) + 2)]

\* [charts[i : i + 2] for i in range(0, len(charts), 2)]
ChartPairs(charts) ==
    [p \in 1..((Len(charts) + 1) \div 2) |-> Slice(charts, 2 * (p - 1), 2 * (p - 1) + 2)]

\* An Optional[List]: None, or a list.
PyNone == [py |-> "None", v |-> <<>>]
PyList(v) == [py |-> "list", v |-> v]

\* `if ai_report_structure:`
Truthy(structure) == structure.py = "list" /\ structure.v # <<>>

\* Lines 171-229: the mapping handed to template.render, or the exception
\* raised while building it.  analysis_summary is kept as the set of keys
\* left in summary after the pop.
BuildTemplateVars(csv_path, summary, charts, ai_report_structure) ==
    IF Truthy(ai_report_structure)
    THEN LET walk == ProcessSections(ai_report_structure.v, charts, 1, 0, <<>>)
         IN IF walk.raised THEN Raised("AttributeError")
            ELSE Returned(
                   [file_path |-> csv_path,
                    sections |-> walk.sections \o
                                 AdditionalVisualizations(charts, walk.chart_index),
                    chart_pairs |-> ChartPairs(charts)])
    ELSE Returned(
           [file_path |-> csv_path,
            strategic_recommendations |-> Get(summary, "strategic_recommendations", <<>>),
            analysis_summary |-> DOMAIN summary \ {"strategic_recommendations"},
            chart_pairs |-> ChartPairs(charts)])

(***************************************************************************)
(* run_dynamic_analysis                                                    *)
(***************************************************************************)

\* AI-authored code is modelled by what executing it does.
FeCodes == {"", "fe_ok", "fe_name", "fe_zero", "fe_syntax"}

\* exec(feature_engineering_code, ...): the exception it raises, if any.
ExecFe(code) ==
    CASE code = "fe_name" -> [exc |-> "NameError", msg |-> "name 'tmp' is not defined"]
      [] code = "fe_zero" -> [exc |-> "ZeroDivisionError", msg |-> "division by zero"]
      [] code = "fe_syntax" -> [exc |-> "SyntaxError", msg |-> "invalid syntax"]
      [] OTHER -> [exc |-> None, msg |-> ""]

\* Visualization code: src is "" when the plan has none; otherwise it appends
\* the paths 1..appends to chart_paths, saving a file for each of them but
\* the first `unsaved` ones, and then raises exc (if not None).
VizCode(src, appends, unsaved, exc) ==
    [src |-> src, appends |-> appends, unsaved |-> unsaved, exc |-> exc]
NoVizCode == VizCode("", 0, 0, None)
VizCodes ==
    {NoVizCode} \cup
    {VizCode("viz", n, u, e) : n \in 0..MaxAppends, u \in 0..1,
                               e \in {None, "NameError", "ValueError"}}

VizMsg(exc) ==
    IF exc = "NameError" THEN "name 'chart_path' is not defined" ELSE "bad value"

\* Report structures: None, or a list of sections, each a dict typed
\* "charts", a dict with no "type" key, or a value that is not a dict.
SectionInputs == {PyDict([type |-> "charts"]), PyDict([title |-> "Intro"]), PyStr}
StructuresUpTo(n) == {PyNone} \cup {PyList(s) : s \in SeqsUpTo(SectionInputs, n)}
Structures == StructuresUpTo(MaxSections)
PlanStructures == StructuresUpTo(MaxPlanSections)
ChartLists == {[i \in 1..n |-> i] : n \in 0..MaxCharts}
Recommendations == {<<>>, <<"drop column x">>}

\* The status strings.
Status(kind, wording, msg) == [kind |-> kind, wording |-> wording, msg |-> msg]
NoResult == Status("none", "", "")

\* Mutant: no separate NameError handler.
FeatureEngineeringError_Generic(e) ==
    Status("Feature Engineering Error", "generic", e.msg)

\* Lines 297-302.
FeatureEngineeringError(e) ==
    IF e.exc = "NameError"
    THEN Status("Feature Engineering Error", "missing variable", e.msg)
    ELSE Status("Feature Engineering Error", "generic", e.msg)

\* Lines 311-316.
VisualizationError(e) ==
    IF e.exc = "NameError"
    THEN Status("Visualization Error", "missing variable", e.msg)
    ELSE Status("Visualization Error", "generic", e.msg)

Warning == Status("Warning", "", "no valid chart files")
Success(report_path) == Status("Success", "", report_path)

\* Classes derived from Exception, which `except Exception` catches.
ExceptionClasses ==
    {"Exception", "FileNotFoundError", "ParserError", "ValueError", "AttributeError",
     "IOError", "OSError", "NameError", "ZeroDivisionError", "SyntaxError"}

\* Mutant: the outermost handler is `except (ValueError, AttributeError)`.
TopLevelCatch_Narrow(exc) ==
    IF exc \in {"ValueError", "AttributeError"}
    THEN Status("Data Science Agent Error", "traceback", exc)
    ELSE Status("raised", "", exc)

\* Lines 337-340: what the caller gets when exc reaches the outermost handler.
TopLevelCatch(exc) ==
    IF exc \in ExceptionClasses
    THEN Status("Data Science Agent Error", "traceback", exc)
    ELSE Status("raised", "", exc)

\* Mutant: `if chart_paths is None:`, which no list satisfies.
NoCharts_IsNone(paths) == Len(paths) < 0

\* `if not chart_paths:`
NoCharts(paths) == paths = <<>>

NoVars == [unset |-> TRUE]

Range(seq) == {seq[i] : i \in 1..Len(seq)}

\* The call returns `status`: its locals are gone, the process-wide state stays.
Return(status) ==
    /\ pc' = "idle"
    /\ result' = status

\* Start of a call (line 244).
Call ==
    /\ pc = "idle"
    /\ runs < MaxRuns
    /\ runs' = runs + 1
    /\ pc' = "load"
    /\ ai_plan' = Returned(<<>>)
    /\ feature_engineering_code' = ""
    /\ visualization_code' = NoVizCode
    /\ strategic_recommendations' = <<>>
    /\ report_structure' = PyNone
    /\ original_savefig' = 0
    /\ chart_paths' = <<>>
    /\ template_vars' = NoVars
    /\ cleanup_index' = 0
    /\ steps' = <<>>
    /\ result' = NoResult
    /\ UNCHANGED <<savefig, files, response>>

\* Lines 248-256: the input file is checked and read.
LoadDataset ==
    /\ pc = "load"
    /\ \E exists \in BOOLEAN, readable \in BOOLEAN :
          IF ~exists THEN Return(TopLevelCatch("FileNotFoundError"))
          ELSE IF ~readable THEN Return(TopLevelCatch("ParserError"))
          ELSE pc' = "plan" /\ UNCHANGED result
    /\ UNCHANGED <<runs, savefig, files, response, ai_plan, feature_engineering_code,
                   visualization_code, strategic_recommendations, report_structure,
                   original_savefig, chart_paths, template_vars, cleanup_index, steps>>

\* Responses the pipeline is run against.
PipelineResponses ==
    {ApiText(<<"fo", "{", "m", "}", "fc">>), ApiText(<<"{", "}">>),
     ApiText(<<"txt", "{", "m", "}">>), ApiText(<<"[", "]">>), ApiText(<<"lit">>),
     ApiText(<<"txt">>), ApiError, ApiBlocked}

\* Lines 259-263: the plan is requested and its four fields are read.  A
\* decoded dict with no member gives the defaults; one with members gives
\* any plan.
RequestPlan ==
    /\ pc = "plan"
    /\ \E resp \in PipelineResponses :
          LET plan == get_ai_plan(resp)
          IN /\ ai_plan' = plan
             /\ IF plan.raised
                THEN /\ Return(TopLevelCatch(plan.exc))
                     /\ UNCHANGED <<feature_engineering_code, visualization_code,
                                    strategic_recommendations, report_structure>>
                ELSE IF JsonKind(plan.value) # "dict"
                THEN /\ Return(TopLevelCatch("AttributeError"))
                     /\ UNCHANGED <<feature_engineering_code, visualization_code,
                                    strategic_recommendations, report_structure>>
                ELSE /\ pc' = "patch"
                     /\ UNCHANGED result
                     /\ IF "m" \in Range(plan.value)
                        THEN /\ feature_engineering_code' \in FeCodes
                             /\ visualization_code' \in VizCodes
                             /\ strategic_recommendations' \in Recommendations
                             /\ report_structure' \in PlanStructures
                        ELSE /\ feature_engineering_code' = ""
                             /\ visualization_code' = NoVizCode
                             /\ strategic_recommendations' = <<>>
                             /\ report_structure' = PyNone
    /\ UNCHANGED <<runs, savefig, files, response, original_savefig, chart_paths,
                   template_vars, cleanup_index, steps>>

\* Lines 267-293: safe_savefig is installed over the current plt.savefig.
InstallSavefig ==
    /\ pc = "patch"
    /\ original_savefig' = savefig
    /\ savefig' = savefig + 1
    /\ chart_paths' = <<>>
    /\ pc' = "fe"
    /\ UNCHANGED <<runs, files, response, ai_plan, feature_engineering_code,
                   visualization_code, strategic_recommendations, report_structure,
                   template_vars, cleanup_index, steps, result>>

\* Lines 294-302.
ExecFeatureEngineering ==
    /\ pc = "fe"
    /\ IF feature_engineering_code # ""
       THEN LET e == ExecFe(feature_engineering_code)
            IN /\ steps' = Append(steps, "fe")
               /\ IF e.exc # None
                  THEN Return(FeatureEngineeringError(e))
                  ELSE pc' = "viz" /\ UNCHANGED result
       ELSE pc' = "viz" /\ UNCHANGED <<steps, result>>
    /\ UNCHANGED <<runs, savefig, files, response, ai_plan, feature_engineering_code,
                   visualization_code, strategic_recommendations, report_structure,
                   original_savefig, chart_paths, template_vars, cleanup_index>>

\* Lines 305-316.
ExecVisualization ==
    /\ pc = "viz"
    /\ IF visualization_code.src # ""
       THEN LET code == visualization_code
            IN /\ steps' = Append(steps, "viz")
               /\ chart_paths' = chart_paths \o [i \in 1..code.appends |-> i]
               /\ files' = files \cup ((code.unsaved + 1)..code.appends)
               /\ IF code.exc # None
                  THEN Return(VisualizationError([exc |-> code.exc, msg |-> VizMsg(code.exc)]))
                  ELSE pc' = "check" /\ UNCHANGED result
       ELSE pc' = "check" /\ UNCHANGED <<steps, chart_paths, files, result>>
    /\ UNCHANGED <<runs, savefig, response, ai_plan, feature_engineering_code,
                   visualization_code, strategic_recommendations, report_structure,
                   original_savefig, template_vars, cleanup_index>>

\* Lines 318-324: plt.savefig is restored and the chart list is checked.
RestoreAndCheck ==
    /\ pc = "check"
    /\ savefig' = original_savefig
    /\ IF NoCharts(chart_paths)
       THEN Return(Warning)
       ELSE pc' = "pdf" /\ UNCHANGED result
    /\ UNCHANGED <<runs, files, response, ai_plan, feature_engineering_code,
                   visualization_code, strategic_recommendations, report_structure,
                   original_savefig, chart_paths, template_vars, cleanup_index, steps>>

\* Lines 327-329 and 146-240: the call of generate_pdf_report.
GeneratePdf ==
    /\ pc = "pdf"
    /\ \E template_found \in BOOLEAN, pdf_written \in BOOLEAN :
          LET analysis_summary ==
                  [strategic_recommendations |-> strategic_recommendations]
              built == BuildTemplateVars("data.csv", analysis_summary, chart_paths,
                                         report_structure)
          IN IF ~template_found
             THEN /\ Return(TopLevelCatch("FileNotFoundError"))
                  /\ steps' = Append(steps, "generate_pdf_report")
                  /\ UNCHANGED template_vars
             ELSE IF built.raised
             THEN /\ Return(TopLevelCatch(built.exc))
                  /\ steps' = Append(steps, "generate_pdf_report")
                  /\ UNCHANGED template_vars
             ELSE /\ template_vars' = built.value
                  /\ IF ~pdf_written
                     THEN /\ Return(TopLevelCatch("IOError"))
                          /\ steps' = steps \o <<"generate_pdf_report", "render">>
                     ELSE /\ pc' = "cleanup"
                          /\ steps' = steps \o <<"generate_pdf_report", "render", "write_pdf">>
                          /\ UNCHANGED result
    /\ UNCHANGED <<runs, savefig, files, response, ai_plan, feature_engineering_code,
                   visualization_code, strategic_recommendations, report_structure,
                   original_savefig, chart_paths, cleanup_index>>

\* Mutant: the loop tests os.path.exists but never calls os.remove.
CleanupChart_KeepsFile ==
    /\ pc = "cleanup"
    /\ cleanup_index < Len(chart_paths)
    /\ cleanup_index' = cleanup_index + 1
    /\ UNCHANGED <<pc, result, files, steps, runs, savefig, response, ai_plan,
                   feature_engineering_code, visualization_code,
                   strategic_recommendations, report_structure, original_savefig,
                   chart_paths, template_vars>>

\* Lines 332-334: one iteration of the cleanup loop.
CleanupChart ==
    /\ pc = "cleanup"
    /\ cleanup_index < Len(chart_paths)
    /\ LET path == chart_paths[cleanup_index + 1]
       IN IF path \in files
          THEN \E removed \in BOOLEAN :
                  IF removed
                  THEN /\ files' = files \ {path}
                       /\ steps' = Append(steps, "remove")
                       /\ cleanup_index' = cleanup_index + 1
                       /\ UNCHANGED <<pc, result>>
                  ELSE /\ Return(TopLevelCatch("OSError"))
                       /\ UNCHANGED <<files, steps, cleanup_index>>
          ELSE /\ cleanup_index' = cleanup_index + 1
               /\ UNCHANGED <<pc, result, files, steps>>
    /\ UNCHANGED <<runs, savefig, response, ai_plan, feature_engineering_code,
                   visualization_code, strategic_recommendations, report_structure,
                   original_savefig, chart_paths, template_vars>>

\* Line 336.
ReturnSuccess ==
    /\ pc = "cleanup"
    /\ cleanup_index = Len(chart_paths)
    /\ Return(Success("Jarvix_Report_data.pdf"))
    /\ UNCHANGED <<runs, savefig, files, response, ai_plan, feature_engineering_code,
                   visualization_code, strategic_recommendations, report_structure,
                   original_savefig, chart_paths, template_vars, cleanup_index, steps>>

Init ==
    /\ pc = "idle"
    /\ runs = 0
    /\ savefig = 0
    /\ files = {}
    /\ response = ApiError
    /\ ai_plan = Returned(<<>>)
    /\ feature_engineering_code = ""
    /\ visualization_code = NoVizCode
    /\ strategic_recommendations = <<>>
    /\ report_structure = PyNone
    /\ original_savefig = 0
    /\ chart_paths = <<>>
    /\ template_vars = NoVars
    /\ cleanup_index = 0
    /\ steps = <<>>
    /\ result = NoResult

Next ==
    \/ Call
    \/ LoadDataset
    \/ RequestPlan
    \/ InstallSavefig
    \/ ExecFeatureEngineering
    \/ ExecVisualization
    \/ RestoreAndCheck
    \/ GeneratePdf
    \/ CleanupChart
    \/ ReturnSuccess

Spec == Init /\ [][Next]_vars

(***************************************************************************)
(* get_ai_plan alone, over every response of at most MaxResp tokens        *)
(***************************************************************************)

\* Every text of at most n tokens, every shorter text wrapped in a fenced
\* block, and the two failures of the API.
Responses(n) ==
    {ApiText(t) : t \in SeqsUpTo(Tokens, n)} \cup
    {ApiText(<<"fo">> \o t \o <<"fc">>) : t \in SeqsUpTo(Tokens, n - 1)} \cup
    {ApiError, ApiBlocked}

InitPlan ==
    /\ pc = "get_ai_plan"
    /\ response \in Responses(MaxResp)
    /\ runs = 0
    /\ savefig = 0
    /\ files = {}
    /\ ai_plan = Returned(<<>>)
    /\ feature_engineering_code = ""
    /\ visualization_code = NoVizCode
    /\ strategic_recommendations = <<>>
    /\ report_structure = PyNone
    /\ original_savefig = 0
    /\ chart_paths = <<>>
    /\ template_vars = NoVars
    /\ cleanup_index = 0
    /\ steps = <<>>
    /\ result = NoResult

CallGetAiPlan ==
    /\ pc = "get_ai_plan"
    /\ ai_plan' = get_ai_plan(response)
    /\ pc' = "plan_returned"
    /\ UNCHANGED <<runs, savefig, files, response, feature_engineering_code,
                   visualization_code, strategic_recommendations, report_structure,
                   original_savefig, chart_paths, template_vars, cleanup_index, steps,
                   result>>

NextPlan == CallGetAiPlan

SpecPlan == InitPlan /\ [][NextPlan]_vars

(***************************************************************************)
(* The report assembly of generate_pdf_report alone, over every chart list *)
(* of at most MaxCharts paths and every structure of at most MaxSections   *)
(* sections                                                                *)
(***************************************************************************)

InitReport ==
    /\ pc = "generate_pdf_report"
    /\ chart_paths \in ChartLists
    /\ report_structure \in Structures
    /\ strategic_recommendations \in Recommendations
    /\ response = ApiError
    /\ runs = 0
    /\ savefig = 0
    /\ files = {}
    /\ ai_plan = Returned(<<>>)
    /\ feature_engineering_code = ""
    /\ visualization_code = NoVizCode
    /\ original_savefig = 0
    /\ template_vars = NoVars
    /\ cleanup_index = 0
    /\ steps = <<>>
    /\ result = NoResult

CallGeneratePdfReport ==
    /\ pc = "generate_pdf_report"
    /\ LET built == BuildTemplateVars(
                        "data.csv",
                        [strategic_recommendations |-> strategic_recommendations],
                        chart_paths, report_structure)
       IN IF built.raised
          THEN pc' = "report_raised" /\ UNCHANGED template_vars
          ELSE pc' = "report_built" /\ template_vars' = built.value
    /\ UNCHANGED <<runs, savefig, files, response, ai_plan, feature_engineering_code,
                   visualization_code, strategic_recommendations, report_structure,
                   original_savefig, chart_paths, cleanup_index, steps, result>>

NextReport == CallGeneratePdfReport

SpecReport == InitReport /\ [][NextReport]_vars

(***************************************************************************)
(* Properties                                                              *)
(***************************************************************************)

CallReturned == pc = "idle" /\ runs > 0

\* The concatenation of a sequence of sequences.
RECURSIVE Concat(_)
Concat(ss) == IF ss = <<>> THEN <<>> ELSE Head(ss) \o Concat(Tail(ss))
Called(stage) == stage \in Range(steps)

StatusKinds ==
    {"Success", "Warning", "Feature Engineering Error", "Visualization Error",
     "Data Science Agent Error"}

\* C1: run_dynamic_analysis never raises to its caller: whatever stage fails,
\* a call in progress can always take its next step, a call that has ended
\* has given its caller one of the five status strings, and a failure that no
\* stage handles (every one but an exception of the two code blocks) is given
\* as the 'Data Science Agent Error' string embedding the traceback of that
\* exception; in particular an exception raised by get_ai_plan is.
C1_NeverRaises ==
    /\ result.kind # "raised"
    /\ pc # "idle" => ENABLED Next
    /\ CallReturned =>
          /\ result.kind \in StatusKinds
          /\ result.kind = "Data Science Agent Error" =>
                result.wording = "traceback" /\ result.msg \in ExceptionClasses
          /\ ai_plan.raised =>
                result = Status("Data Science Agent Error", "traceback", ai_plan.exc)
          /\ (~ai_plan.raised /\ steps = <<>> /\ ai_plan.value # <<>>
              /\ JsonKind(ai_plan.value) # "dict") =>
                result = Status("Data Science Agent Error", "traceback", "AttributeError")
          /\ (Called("generate_pdf_report") /\ ~Called("write_pdf")) =>
                result.kind = "Data Science Agent Error"

\* C1 witness: a call whose PDF rasterization failed has returned the
\* 'Data Science Agent Error' string for the IOError.
C1_Witness ==
    /\ CallReturned
    /\ Called("render") /\ ~Called("write_pdf")
    /\ result = Status("Data Science Agent Error", "traceback", "IOError")

\* C2: whenever a call of run_dynamic_analysis has returned, plt.savefig is
\* the primitive that was in place before any call installed its wrapper.
C2_SavefigRestored == pc = "idle" => savefig = 0

\* C3: get_ai_plan either raises or returns a mapping (a decoded JSON object).
C3_PlanIsMapping ==
    pc = "plan_returned" => (ai_plan.raised \/ JsonKind(ai_plan.value) = "dict")

FeRaised ==
    /\ steps # <<>>
    /\ steps[1] = "fe"
    /\ ExecFe(feature_engineering_code).exc # None

\* C4: when the feature-engineering code raises, the call has returned the
\* 'Feature Engineering Error' string embedding the exception's message, in
\* the 'missing variable' wording for a NameError and the generic wording for
\* any other exception, and nothing else ran in that call: no visualization
\* code, no renderer, no chart deletion.
C4_FeatureEngineeringAborts ==
    FeRaised =>
       LET e == ExecFe(feature_engineering_code)
       IN /\ pc = "idle"
          /\ result.kind = "Feature Engineering Error"
          /\ result.msg = e.msg
          /\ result.wording = IF e.exc = "NameError" THEN "missing variable" ELSE "generic"
          /\ steps = <<"fe">>
          /\ chart_paths = <<>>

\* C4 witness: a call whose feature-engineering code raised a NameError has
\* returned.
C4_Witness ==
    /\ CallReturned
    /\ FeRaised
    /\ ExecFe(feature_engineering_code).exc = "NameError"
    /\ result.wording = "missing variable"

VizCompleted == visualization_code.src = "" \/ visualization_code.exc = None
FeCompleted == ExecFe(feature_engineering_code).exc = None

\* C5: a call that reaches the chart-list check with an empty list returns
\* the warning string without calling generate_pdf_report, a call that has
\* returned the warning has never called generate_pdf_report, and
\* generate_pdf_report is called only when both code blocks completed without
\* an exception and the chart-path list is non-empty.
C5_NoChartsNoReport ==
    /\ [][(pc = "check" /\ chart_paths = <<>>) =>
             (pc' = "idle" /\ result' = Warning /\ steps' = steps)]_vars
    /\ [](result = Warning => ~Called("generate_pdf_report"))
    /\ [](Called("generate_pdf_report") =>
             (FeCompleted /\ VizCompleted /\ chart_paths # <<>>))

\* C5 witness: visualization code ran, appended nothing, and the call has
\* returned the warning.
C5_Witness ==
    /\ CallReturned
    /\ Called("viz")
    /\ chart_paths = <<>>
    /\ result = Warning

ReportBuilt == pc = "report_built"
Sections == Get(template_vars, "sections", <<>>)
SectionCharts(section) == Get(section, "chart_paths", <<>>)
AttachedCharts == Concat([i \in 1..Len(Sections) |-> SectionCharts(Sections[i])])
IsChartsInput(section) == section.py = "dict" /\ Get(section.d, "type", None) = "charts"
ChartsInputs == {i \in 1..Len(report_structure.v) : IsChartsInput(report_structure.v[i])}
HasTrailing == Len(Sections) = Len(report_structure.v) + 1
NoTrailing == Len(Sections) = Len(report_structure.v)

\* C6: on the AI-structure path the chart_paths of the produced sections,
\* concatenated in section order, are exactly the input chart list: no chart
\* is dropped and no position is attached twice.
C6_NoChartDropped ==
    (ReportBuilt /\ Truthy(report_structure)) => AttachedCharts = chart_paths

\* C6 witness: four charts spread over two "charts" sections.
C6_Witness ==
    /\ ReportBuilt
    /\ Truthy(report_structure)
    /\ Len(chart_paths) = 4
    /\ Cardinality(ChartsInputs) = 2

OneChartsSection == ReportBuilt /\ Truthy(report_structure) /\ Cardinality(ChartsInputs) = 1
TheChartsSection == Sections[CHOOSE i \in ChartsInputs : TRUE]

\* C7 as stated: with exactly one "charts" section and N charts, that section
\* gets min(2, N) charts and exactly one trailing section is created, holding
\* the remaining max(0, N - 2) charts.  It is stated for the chart lists that
\* run_dynamic_analysis passes, which are never empty.
C7_Original ==
    (OneChartsSection /\ chart_paths # <<>>) =>
       /\ Len(SectionCharts(TheChartsSection)) = Min(2, Len(chart_paths))
       /\ HasTrailing
       /\ Len(SectionCharts(Sections[Len(Sections)])) =
             IF Len(chart_paths) > 2 THEN Len(chart_paths) - 2 ELSE 0

\* C7 as amended: with exactly one "charts" section and N charts, that
\* section gets the first min(2, N) charts; when N > 2 exactly one trailing
\* section is created, holding the remaining N - 2 charts, and when N <= 2 no
\* trailing section is created.
C7_OneChartsSection ==
    OneChartsSection =>
       /\ SectionCharts(TheChartsSection) = SubSeq(chart_paths, 1, Min(2, Len(chart_paths)))
       /\ IF Len(chart_paths) > 2
          THEN /\ HasTrailing
               /\ Sections[Len(Sections)].title = "Additional Visualizations"
               /\ SectionCharts(Sections[Len(Sections)]) =
                     SubSeq(chart_paths, 3, Len(chart_paths))
          ELSE NoTrailing

\* C7 witness: one "charts" section and two charts, so nothing remains.
C7_Witness ==
    /\ OneChartsSection
    /\ Len(chart_paths) = 2
    /\ NoTrailing

\* C8 as stated: every section of the Report Context carries at most 2 chart
\* paths.
C8_Original ==
    ReportBuilt => \A i \in 1..Len(Sections) : Len(SectionCharts(Sections[i])) <= 2

Consumed == Min(Len(chart_paths), 2 * Cardinality(ChartsInputs))

\* C8 as amended: every section built from a section of the AI report
\* structure carries at most 2 chart paths; the trailing 'Additional
\* Visualizations' section, created when charts are left over, carries all of
\* them, which is more than 2 when more than 2 are left over.
C8_AtMostTwoPerPlanSection ==
    (ReportBuilt /\ Truthy(report_structure)) =>
       /\ \A i \in 1..Len(report_structure.v) : Len(SectionCharts(Sections[i])) <= 2
       /\ IF Consumed < Len(chart_paths)
          THEN /\ HasTrailing
               /\ Len(SectionCharts(Sections[Len(Sections)])) = Len(chart_paths) - Consumed
          ELSE NoTrailing

\* C8 witness: a structure with no "charts" section and three charts, all of
\* them in the trailing section.
C8_Witness ==
    /\ ReportBuilt
    /\ Truthy(report_structure)
    /\ ChartsInputs = {}
    /\ Len(chart_paths) = 3
    /\ Len(SectionCharts(Sections[Len(Sections)])) = 3

\* C9: the mapping handed to template.render carries the plan's strategic
\* recommendations, with or without a report structure (stated for plans
\* that have recommendations).
C9_RecommendationsRendered ==
    (Called("render") /\ strategic_recommendations # <<>>) =>
       /\ "strategic_recommendations" \in DOMAIN template_vars
       /\ template_vars.strategic_recommendations = strategic_recommendations

Pairs == Get(template_vars, "chart_pairs", <<>>)

\* C10: with no AI report structure (absent or empty) the N charts are
\* grouped, in list order, into ceil(N/2) pairs of 2 charts each, except that
\* the last pair holds 1 when N is odd; each chart position is in exactly one
\* pair.
C10_FallbackPairs ==
    (ReportBuilt /\ ~Truthy(report_structure)) =>
       LET N == Len(chart_paths)
       IN /\ 2 * Len(Pairs) \in {N, N + 1}
          /\ \A p \in 1..Len(Pairs) :
                Len(Pairs[p]) = IF p = Len(Pairs) /\ N % 2 = 1 THEN 1 ELSE 2
          /\ Concat(Pairs) = chart_paths

\* C10 witness: an empty structure and three charts give two pairs, the last
\* with one chart.
C10_Witness ==
    /\ ReportBuilt
    /\ report_structure = PyList(<<>>)
    /\ Len(chart_paths) = 3
    /\ Len(Pairs) = 2
    /\ Len(Pairs[2]) = 1

\* C11: chart files are deleted only after the PDF is generated: when a call
\* has returned the success message no path of its chart-path list is left
\* in the chart directory (a listed path with no file is passed over and the
\* call still succeeds), and a step of a call removes a chart file only when
\* write_pdf has completed in that call.
C11_ChartsDeletedAfterPdf ==
    /\ []((CallReturned /\ result.kind = "Success") =>
             /\ Range(chart_paths) \cap files = {}
             /\ Called("write_pdf")
             /\ cleanup_index = Len(chart_paths))
    /\ [][(files' # files /\ files' \subseteq files) =>
             (Called("write_pdf") /\ pc = "cleanup")]_vars

\* C11 witness: a successful call whose first listed path never had a file
\* and whose other chart files were removed.
C11_Witness ==
    /\ CallReturned
    /\ result.kind = "Success"
    /\ runs = 1
    /\ visualization_code.unsaved = 1
    /\ Len(chart_paths) = 3
    /\ steps = <<"viz", "generate_pdf_report", "render", "write_pdf", "remove", "remove">>
    /\ files = {}

PlanReturned == pc = "plan_returned" /\ response.api = "text"

\* The three attempts as C12 lists them, each on the response text: the
\* whole response, the content of a fenced block, the brace-delimited
\* substring (as the code's pattern delimits it); the first that decodes.
ClaimedParse(text) ==
    LET direct == JsonLoads(text)
        fence == FenceSearch(text)
        fenced == JsonLoads(fence.group)
        brace == BraceSearch(text)
        braced == JsonLoads(brace.group)
    IN IF direct.ok THEN Returned(direct.value)
       ELSE IF fence.found /\ fenced.ok THEN Returned(fenced.value)
       ELSE IF brace.found /\ braced.ok THEN Returned(braced.value)
       ELSE Raised("ValueError")

ParsedText ==
    LET text == response.text
        fence == FenceSearch(text)
    IN IF fence.found THEN fence.group ELSE text

\* The span from the first "{" to the last "}" of a text, empty if there is
\* no "{" followed by a "}".
BraceSpan(text) ==
    LET ok == {<<a, b>> \in (1..Len(text)) \X (1..Len(text)) :
                  /\ a < b
                  /\ text[a] = "{" /\ text[b] = "}"
                  /\ \A i \in 1..(a - 1) : text[i] # "{"
                  /\ \A i \in (b + 1)..Len(text) : text[i] # "}"}
    IN IF ok = {} THEN <<>>
       ELSE LET ab == CHOOSE x \in ok : TRUE IN SubSeq(text, ab[1], ab[2])

IsJson(text) == IsJsonValue(StripWs(text))

====
